---- MODULE Spec2Model ----
(***************************************************************************)
(* Model of the BACnet test harness: the two client wrappers               *)
(* (src/src/eventloop_bacnet_client.py, src/src/bacnet_client.py), the     *)
(* background event-loop thread of EventLoopBACnetClient, the retry loop, *)
(* the write-read cycles and the invalid-value write of                   *)
(* tests/bacnet/test_bacnet_e2e.py, and the original_analog_value fixture *)
(* of tests/bacnet/conftest.py.                                            *)
(* The BAC0 library and the device are the environment: every library     *)
(* call answers, answers with None, or raises, and the device stores what *)
(* an accepted write request carries.                                      *)
(***************************************************************************)
EXTENDS Integers, Sequences, FiniteSets, TLC

\* ---------------------------------------------------------------- bounds
MaxSessions == 2     \* event-loop threads one client may start, and library
                     \* connections (BAC0.lite / BAC0.connect) it may open
MaxRetriesBound == 2 \* TEST_RETRY_COUNT ranges over 0..MaxRetriesBound

\* ------------------------------------------------------ program constants
DefaultPriority == 8
Tolerance == 1            \* 0.01, values are counted in hundredths
InvalidInstance == 99999
DeviceId == 1234
AnalogValueInstance == 1
RetryCountDefault == 3
UnitsValue == 62          \* what the device holds for a property that is not presentValue

None == 0
\* the AnalogValue objects of the device: the configured one and another
Instances == {AnalogValueInstance, AnalogValueInstance + 1}
Values == {0, 7550}       \* 0.0 and 75.5 in hundredths
\* the string "invalid" that test_write_invalid_value_type passes as a value
InvalidValue == 0 - 2
IsNumeric(v) == v \in Nat
Priorities == {DefaultPriority, 1}
Classes == {"EventLoopBACnetClient", "BACnetClient"}
\* what is run against the client: single calls in any order, a read of a
\* second thread next to connect/disconnect, the retry test, or the
\* write-read cycles, or a test under the original_analog_value fixture
Tests == {"operations", "concurrent_read", "retry", "write_read", "restore"}

VARIABLES
  cls,          \* the class of the client under test
  test,         \* the test program that drives the client
  bacnet,       \* self.bacnet: None or the handle of a library connection
  device,       \* self.device (BACnetClient): None or the handle it was made with
  loop,         \* self.loop: None or the event loop of thread `loop`
  loop_thread,  \* self.loop_thread: None or a thread
  thr,          \* thr[t]: position of event-loop thread t in _run_event_loop
  stopreq,      \* stopreq[t]: loop.stop has been scheduled on the loop of t
  fut,          \* the future of the _async_connect coroutine
  nconn,        \* library connections opened so far
  pc,           \* position of the calling thread inside connect/disconnect
  result,       \* the last call of the calling thread: its arguments, what
                \* it delivered, the last request it handed to the library
                \* and how the library ended each read of get_device_info
  av,           \* the device: present value of each AnalogValue instance
  r_pc,         \* a second thread calling read_property
  r_result,     \* what that read_property call delivered
  analog_value_instance,  \* bacnet_config["analog_value_instance"]
  t_pc,         \* position of the running test function
  test_value,   \* the value test_multiple_write_read_cycles is writing
  max_retries,  \* bacnet_config["retry_count"]
  attempt,      \* the loop variable of the retry loop
  tx,           \* read requests the retry loop has issued
  original_value,  \* what the original_analog_value fixture read at setup
  slept         \* time.sleep(retry_delay) calls of the retry loop

vars == <<cls, test, bacnet, device, loop, loop_thread, thr, stopreq, fut,
          nconn, pc, result, av, r_pc, r_result, analog_value_instance,
          t_pc,
          test_value, max_retries, attempt, tx, slept, original_value>>

clientVars == <<bacnet, device, loop, loop_thread>>
threadVars == <<thr, stopreq, fut>>
libVars == <<nconn>>
readerVars == <<r_pc, r_result>>
retryVars == <<analog_value_instance, t_pc, test_value, max_retries, attempt,
               tx, slept, original_value>>

NoFuture == [loop |-> None, st |-> "none", val |-> None]
NoValue == 0 - 1     \* Python's None where a property value is expected
NoInfo == [absent |-> TRUE]
NoWire == <<>>
NoResult == [op |-> "none", inst |-> None, arg |-> NoValue, prio |-> None,
             out |-> "none", err |-> "none", val |-> NoValue, info |-> NoInfo,
             sent |-> 0, wire |-> NoWire, lib |-> <<>>]

\* __init__ of both classes, the device as found, the fixtures' configuration
Init ==
  /\ test \in Tests
  /\ cls \in IF test = "concurrent_read" THEN {"EventLoopBACnetClient"} ELSE Classes
  /\ bacnet = None
  /\ device = None
  /\ loop = None
  /\ loop_thread = None
  /\ thr = [t \in 1..MaxSessions |-> "unstarted"]
  /\ stopreq = [t \in 1..MaxSessions |-> FALSE]
  /\ fut = NoFuture
  /\ nconn = 0
  /\ pc = "idle"
  /\ result = NoResult
  /\ av \in {[i \in Instances |-> v] : v \in Values}
  /\ r_pc = "idle"
  /\ r_result = NoResult
  /\ analog_value_instance \in IF test = "write_read" THEN Instances
                              ELSE {AnalogValueInstance}
  /\ t_pc = "idle"
  /\ test_value = NoValue
  /\ max_retries \in IF test = "retry" THEN 0..MaxRetriesBound
                    ELSE {RetryCountDefault}
  /\ attempt = 0
  /\ tx = 0
  /\ slept = 0
  /\ original_value = NoValue

\* ------------------------------------------------- the event-loop thread
is_alive(t) == t # None /\ thr[t] \in {"new", "created", "running"}
is_running(l) == l # None /\ thr[l] = "running"
is_closed(l) == l # None /\ thr[l] = "done"

\* _run_event_loop line 57: self.loop = asyncio.new_event_loop()
run_event_loop_create(t) ==
  /\ thr[t] = "new"
  /\ thr' = [thr EXCEPT ![t] = "created"]
  /\ loop' = t
  /\ UNCHANGED <<cls, test, bacnet, device, loop_thread, stopreq, fut, libVars, pc,
                 result, av, readerVars, retryVars>>

\* _run_event_loop line 63: self.loop.run_forever() begins
run_event_loop_forever(t) ==
  /\ thr[t] = "created"
  /\ thr' = [thr EXCEPT ![t] = "running"]
  /\ UNCHANGED <<cls, test, clientVars, stopreq, fut, libVars, pc, result, av,
                 readerVars, retryVars>>

\* the scheduled loop.stop runs; run_forever returns, the loop is closed
\* (line 65) and the thread ends
run_event_loop_close(t) ==
  /\ thr[t] = "running"
  /\ stopreq[t]
  /\ thr' = [thr EXCEPT ![t] = "done"]
  /\ UNCHANGED <<cls, test, clientVars, stopreq, fut, libVars, pc, result, av,
                 readerVars, retryVars>>

\* the loop runs the _async_connect coroutine: BAC0.lite / BAC0.connect
\* answers with a new connection or raises
async_connect(ok) ==
  /\ fut.st = "pending"
  /\ is_running(fut.loop)
  /\ IF ok
       THEN /\ nconn < MaxSessions
            /\ nconn' = nconn + 1
            /\ fut' = [fut EXCEPT !.st = "ok", !.val = nconn + 1]
       ELSE /\ fut' = [fut EXCEPT !.st = "exc"]
            /\ UNCHANGED libVars
  /\ UNCHANGED <<cls, test, clientVars, thr, stopreq, pc, result, av,
                 readerVars, retryVars>>

\* ------------------------------------------------ what a call delivers
Call(op, inst, arg, prio) ==
  [op |-> op, inst |-> inst, arg |-> arg, prio |-> prio, out |-> "running",
   err |-> "none", val |-> NoValue, info |-> NoInfo, sent |-> 0,
   wire |-> NoWire, lib |-> <<>>]
Op(op) == Call(op, None, NoValue, None)
Ret(c, val, sent) == [c EXCEPT !.out = "return", !.val = val, !.sent = sent]
Raise(c, err, sent) == [c EXCEPT !.out = "raise", !.err = err, !.sent = sent]
Raising(c, err) == [c EXCEPT !.out = "raising", !.err = err]

IsEventLoop == cls = "EventLoopBACnetClient"
IsSimple == cls = "BACnetClient"
\* the calling thread is between two calls and no test function has begun:
\* pytest runs one test at a time, on the client as the calls before left it
CallerIdle == pc = "idle" /\ t_pc = "idle"

\* a disconnect() that closes the connection while the second thread is
\* suspended in its read
Interrupt(p) == IF p = "waiting" THEN "interrupted" ELSE p

\* --------------------------------------- EventLoopBACnetClient.connect
\* start_event_loop without the test of line 70: every connect() starts a
\* thread
start_event_loop_unguarded ==
  /\ CallerIdle /\ IsEventLoop
  /\ \E t \in 1..MaxSessions :
       /\ thr[t] = "unstarted"
       /\ \A u \in 1..(t - 1) : thr[u] # "unstarted"
       /\ thr' = [thr EXCEPT ![t] = "new"]
       /\ loop_thread' = t
       /\ pc' = "c_wait"
  /\ result' = Op("connect")
  /\ UNCHANGED <<cls, test, bacnet, device, loop, stopreq, fut, libVars, av,
                 readerVars, retryVars>>

\* connect line 97 -> _start_event_loop lines 70-72: a thread is started
\* only when there is none or the last one has ended
start_event_loop ==
  /\ CallerIdle /\ IsEventLoop
  /\ IF loop_thread = None \/ ~is_alive(loop_thread)
       THEN \E t \in 1..MaxSessions :
              /\ thr[t] = "unstarted"
              /\ \A u \in 1..(t - 1) : thr[u] # "unstarted"
              /\ thr' = [thr EXCEPT ![t] = "new"]
              /\ loop_thread' = t
              /\ pc' = "c_wait"
       ELSE /\ pc' = "c_submit"
            /\ UNCHANGED <<thr, loop_thread>>
  /\ result' = Op("connect")
  /\ UNCHANGED <<cls, test, bacnet, device, loop, stopreq, fut, libVars, av,
                 readerVars, retryVars>>

\* _start_event_loop lines 75-81: poll self.loop for at most 5 seconds
start_event_loop_wait(timed_out) ==
  /\ pc = "c_wait"
  /\ IF loop # None
       THEN /\ pc' = "c_submit"
            /\ UNCHANGED result
       ELSE /\ timed_out
            /\ pc' = "c_except"
            /\ result' = Raising(Op("connect"), "RuntimeError")
  /\ UNCHANGED <<cls, test, clientVars, threadVars, libVars, av, readerVars,
                 retryVars>>

\* connect lines 102-105: run_coroutine_threadsafe(coro, self.loop); a None
\* or closed loop raises
connect_submit ==
  /\ pc = "c_submit"
  /\ IF loop = None \/ is_closed(loop)
       THEN /\ pc' = "c_except"
            /\ result' = Raising(Op("connect"),
                                 IF loop = None THEN "AttributeError"
                                 ELSE "RuntimeError")
            /\ UNCHANGED fut
       ELSE /\ pc' = "c_result"
            /\ fut' = [loop |-> loop, st |-> "pending", val |-> None]
            /\ UNCHANGED result
  /\ UNCHANGED <<cls, test, clientVars, thr, stopreq, libVars, av, readerVars,
                 retryVars>>

\* connect line 108: self.bacnet = future.result(timeout=10)
connect_result(timed_out) ==
  /\ pc = "c_result"
  /\ \/ /\ fut.st = "ok"
        /\ bacnet' = fut.val
        /\ fut' = NoFuture
        /\ pc' = "idle"
        /\ result' = Ret(Op("connect"), NoValue, 0)
     \/ /\ fut.st = "exc"
        /\ fut' = NoFuture
        /\ pc' = "c_except"
        /\ result' = Raising(Op("connect"), "LibraryError")
        /\ UNCHANGED bacnet
     \/ /\ fut.st = "pending"
        /\ timed_out
        /\ pc' = "c_except"
        /\ result' = Raising(Op("connect"), "TimeoutError")
        /\ UNCHANGED <<bacnet, fut>>
  /\ UNCHANGED <<cls, test, device, loop, loop_thread, thr, stopreq, libVars, av,
                 readerVars, retryVars>>

\* _stop_event_loop lines 87-88: schedule loop.stop on a running loop
StopRequested == IF is_running(loop) THEN [stopreq EXCEPT ![loop] = TRUE]
                 ELSE stopreq
\* _stop_event_loop lines 90-91: the join happens only on that branch
StopJoins == is_running(loop) /\ loop_thread # None

\* connect lines 116-119: the except handler calls _stop_event_loop
connect_except ==
  /\ pc = "c_except"
  /\ stopreq' = StopRequested
  /\ IF StopJoins
       THEN /\ pc' = "c_join"
            /\ UNCHANGED result
       ELSE /\ pc' = "idle"
            /\ result' = [result EXCEPT !.out = "raise"]
  /\ UNCHANGED <<cls, test, clientVars, thr, fut, libVars, av, readerVars,
                 retryVars>>

\* loop_thread.join(timeout=5) returns when the thread has ended or after
\* 5 seconds
JoinReturns(timed_out) == timed_out \/ ~is_alive(loop_thread)

\* connect line 119: raise, once the join has returned
connect_raise(timed_out) ==
  /\ pc = "c_join"
  /\ JoinReturns(timed_out)
  /\ pc' = "idle"
  /\ result' = [result EXCEPT !.out = "raise"]
  /\ UNCHANGED <<cls, test, clientVars, threadVars, libVars, av, readerVars,
                 retryVars>>

\* ------------------------------------ EventLoopBACnetClient.disconnect
\* disconnect lines 137-152; lib_ok is whether self.bacnet.disconnect()
\* returns or raises
disconnect(lib_ok) ==
  /\ CallerIdle /\ IsEventLoop
  /\ IF bacnet # None /\ ~lib_ok
       THEN \* line 142 raised: lines 144 and 149 are skipped, line 151 swallows
            /\ pc' = "idle"
            /\ result' = Ret(Op("disconnect"), NoValue, 0)
            /\ UNCHANGED <<bacnet, stopreq, r_pc>>
       ELSE /\ bacnet' = None
            /\ r_pc' = Interrupt(r_pc)
            /\ stopreq' = StopRequested
            /\ IF StopJoins
                 THEN /\ pc' = "d_join"
                      /\ result' = Op("disconnect")
                 ELSE /\ pc' = "idle"
                      /\ result' = Ret(Op("disconnect"), NoValue, 0)
  /\ UNCHANGED <<cls, test, device, loop, loop_thread, thr, fut, nconn, av,
                 r_result, retryVars>>

\* disconnect returns once the join of _stop_event_loop has returned
disconnect_return(timed_out) ==
  /\ pc = "d_join"
  /\ JoinReturns(timed_out)
  /\ pc' = "idle"
  /\ result' = Ret(Op("disconnect"), NoValue, 0)
  /\ UNCHANGED <<cls, test, clientVars, threadVars, libVars, av, readerVars,
                 retryVars>>

\* ------------------------------------------------ BACnetClient.connect
\* bacnet_client.py lines 45-73; lite_ok: BAC0.lite / BAC0.connect returns;
\* dev: BAC0.device returns a device, returns a falsy value, or raises
BACnetClient_connect(lite_ok, dev) ==
  /\ CallerIdle /\ IsSimple
  /\ IF ~lite_ok
       THEN /\ result' = Raise(Op("connect"), "LibraryError", 0)
            /\ UNCHANGED <<bacnet, device, libVars>>
       ELSE /\ nconn < MaxSessions
            /\ nconn' = nconn + 1
            /\ bacnet' = nconn + 1
            /\ CASE dev = "device" ->
                      /\ device' = nconn + 1
                      /\ result' = Ret(Op("connect"), NoValue, 0)
                 [] dev = "falsy" ->
                      /\ device' = None
                      /\ result' = Raise(Op("connect"), "ConnectionError", 0)
                 [] dev = "raise" ->
                      /\ UNCHANGED device
                      /\ result' = Raise(Op("connect"), "LibraryError", 0)
  /\ UNCHANGED <<cls, test, loop, loop_thread, threadVars, pc, av, readerVars,
                 retryVars>>

\* BACnetClient.disconnect without line 82: the device handle is kept
BACnetClient_disconnect_keeps_device(lib_ok) ==
  /\ CallerIdle /\ IsSimple
  /\ IF bacnet = None
       THEN /\ result' = Ret(Op("disconnect"), NoValue, 0)
            /\ UNCHANGED <<bacnet, device>>
       ELSE IF lib_ok
         THEN /\ bacnet' = None
              /\ UNCHANGED device
              /\ result' = Ret(Op("disconnect"), NoValue, 0)
         ELSE /\ result' = Raise(Op("disconnect"), "LibraryError", 0)
              /\ UNCHANGED <<bacnet, device>>
  /\ UNCHANGED <<cls, test, loop, loop_thread, threadVars, nconn, pc, av,
                 readerVars, retryVars>>

\* bacnet_client.py lines 77-86
BACnetClient_disconnect(lib_ok) ==
  /\ CallerIdle /\ IsSimple
  /\ IF bacnet = None
       THEN /\ result' = Ret(Op("disconnect"), NoValue, 0)
            /\ UNCHANGED <<bacnet, device>>
       ELSE IF lib_ok
         THEN /\ bacnet' = None
              /\ device' = None
                /\ result' = Ret(Op("disconnect"), NoValue, 0)
         ELSE /\ result' = Raise(Op("disconnect"), "LibraryError", 0)
              /\ UNCHANGED <<bacnet, device>>
  /\ UNCHANGED <<cls, test, loop, loop_thread, threadVars, nconn, pc, av,
                 readerVars, retryVars>>

\* ----------------------------------------- the library and the device
\* self.device_address = f"{self.device_ip}:{self.device_id}"
device_address == <<"device_ip", DeviceId>>
CallInstances == Instances \cup {InvalidInstance}
Properties == {"presentValue", "units"}
LibAnswers == {"answer", "none", "raise"}

\* what the device holds for a property of an AnalogValue object
DeviceValue(object_type, instance, property_name) ==
  IF object_type = "analogValue" /\ instance \in Instances
    THEN IF property_name = "presentValue" THEN av[instance] ELSE UnitsValue
    ELSE NoValue

\* bacnet.read(request): the request is "<address> <type> <instance> <property>";
\* the library answers with the device's value, with None, or raises
BAC0_read(request, how) ==
  [raised |-> how = "raise",
   val |-> IF how = "answer"
             THEN DeviceValue(request[2], request[3], request[4])
             ELSE NoValue]

\* bacnet.write(request): the request is
\* "<address> <type> <instance> <property> <value> - <priority>"; an accepted
\* write is stored by the device under the instance the request names; a
\* present value is a number, the device stores nothing else
BAC0_write_ok(request, how) == how = "answer" /\ request[3] \in Instances
BAC0_write_av(request, how) ==
  IF BAC0_write_ok(request, how) /\ IsNumeric(request[5])
    THEN [av EXCEPT ![request[3]] = request[5]]
    ELSE av

\* device[point_name] and device[point_name] = value of a BAC0 device; the
\* point name is "<type>:<instance>"
BAC0_getitem(point_name, how) ==
  [raised |-> how = "raise",
   val |-> IF how = "answer"
             THEN DeviceValue(point_name[1], point_name[2], "presentValue")
             ELSE NoValue]
BAC0_setitem_ok(point_name, how) == how = "answer" /\ point_name[2] \in Instances
BAC0_setitem_av(point_name, value, how) ==
  IF BAC0_setitem_ok(point_name, how) /\ IsNumeric(value)
    THEN [av EXCEPT ![point_name[2]] = value]
    ELSE av

\* the effect of one call: what it delivers, the request it handed to the
\* library last (none when it handed none), and the device afterwards
Effect(res, w, a) == [res |-> [res EXCEPT !.wire = w], av |-> a]

\* float(value) of a number
float(v) == v

\* --------------------------- EventLoopBACnetClient: the data operations
\* read_analog_value without the check of lines 173-174: a None answer of
\* the library is returned as it is
read_analog_value_no_check(instance, how) ==
  LET c == Call("read_analog_value", instance, NoValue, None)
      request == <<device_address, "analogValue", instance, "presentValue">>
      value == BAC0_read(request, how)
  IN  IF bacnet = None THEN Effect(Raise(c, "ConnectionError", 0), NoWire, av)
      ELSE IF value.raised THEN Effect(Raise(c, "LibraryError", 1), request, av)
      ELSE Effect(Ret(c, value.val, 1), request, av)

\* eventloop_bacnet_client.py lines 164-183
read_analog_value(instance, how) ==
  LET c == Call("read_analog_value", instance, NoValue, None)
      request == <<device_address, "analogValue", instance, "presentValue">>
      value == BAC0_read(request, how)
  IN  IF bacnet = None THEN Effect(Raise(c, "ConnectionError", 0), NoWire, av)
      ELSE IF value.raised THEN Effect(Raise(c, "LibraryError", 1), request, av)
      ELSE IF value.val = NoValue THEN Effect(Raise(c, "ValueError", 1), request, av)
      ELSE Effect(Ret(c, float(value.val), 1), request, av)

\* write_analog_value with the value and the priority exchanged in the
\* request string
write_analog_value_swapped(instance, value, priority, how) ==
  LET c == Call("write_analog_value", instance, value, priority)
      request == <<device_address, "analogValue", instance, "presentValue",
                   priority, "-", value>>
  IN  IF bacnet = None THEN Effect(Raise(c, "ConnectionError", 0), NoWire, av)
      ELSE IF ~BAC0_write_ok(request, how)
        THEN Effect(Raise(c, "LibraryError", 1), request, av)
      ELSE Effect(Ret(c, NoValue, 1), request, BAC0_write_av(request, how))

\* eventloop_bacnet_client.py lines 194-210
write_analog_value(instance, value, priority, how) ==
  LET c == Call("write_analog_value", instance, value, priority)
      request == <<device_address, "analogValue", instance, "presentValue",
                   value, "-", priority>>
  IN  IF bacnet = None THEN Effect(Raise(c, "ConnectionError", 0), NoWire, av)
      ELSE IF ~BAC0_write_ok(request, how)
        THEN Effect(Raise(c, "LibraryError", 1), request, av)
      ELSE Effect(Ret(c, NoValue, 1), request, BAC0_write_av(request, how))

\* eventloop_bacnet_client.py lines 237-244: the library call of
\* read_property and what the caller gets from it
read_property_return(c, request, how) ==
  LET value == BAC0_read(request, how)
  IN  IF value.raised THEN Raise(c, "LibraryError", 1)
      ELSE Ret(c, value.val, 1)

\* eventloop_bacnet_client.py lines 229-244
read_property(object_type, instance, property_name, how) ==
  LET c == Call("read_property", instance, NoValue, None)
      request == <<device_address, object_type, instance, property_name>>
  IN  IF bacnet = None THEN Effect(Raise(c, "ConnectionError", 0), NoWire, av)
      ELSE Effect(read_property_return(c, request, how), request, av)

\* eventloop_bacnet_client.py lines 253-270
whois(how) ==
  LET c == Op("whois")
      request == <<"whois">>
  IN  IF bacnet = None THEN Effect(Raise(c, "ConnectionError", 0), NoWire, av)
      ELSE IF how = "raise" THEN Effect(Raise(c, "LibraryError", 1), request, av)
      ELSE Effect(Ret(c, NoValue, 1), request, av)

\* the four properties get_device_info reads, in the order it reads them
InfoProps == <<"objectName", "vendorName", "modelName", "description">>
\* one guarded read of get_device_info: lines 293-296, 298-301, 303-306, 308-311
InfoRead(k, how) ==
  IF how = "raise" THEN "Unknown"
  ELSE IF how = "none" THEN "None"
  ELSE InfoProps[k]

\* get_device_info with the four reads under one handler: the first read
\* that fails ends in the handler of lines 316-325
get_device_info_one_handler(hows) ==
  LET c == Op("get_device_info")
      last == <<device_address, "device", DeviceId, InfoProps[4]>>
      info == [device_id |-> DeviceId, device_address |-> device_address,
               name |-> InfoRead(1, hows[1]), vendor |-> InfoRead(2, hows[2]),
               model |-> InfoRead(3, hows[3]),
               description |-> InfoRead(4, hows[4])]
      unknown == [device_id |-> DeviceId, device_address |-> device_address,
                  name |-> "Unknown", vendor |-> "Unknown",
                  model |-> "Unknown", description |-> "Unknown"]
  IN  IF bacnet = None
        THEN Effect([Ret(c, NoValue, 0) EXCEPT !.info = unknown], NoWire, av)
      ELSE IF \E k \in 1..4 : hows[k] = "raise"
        THEN Effect([Ret(c, NoValue, 4) EXCEPT !.info = unknown, !.lib = hows],
                    last, av)
      ELSE Effect([Ret(c, NoValue, 4) EXCEPT !.info = info, !.lib = hows],
                  last, av)

\* eventloop_bacnet_client.py lines 279-325; hows[k] is how the k-th read ends
get_device_info(hows) ==
  LET c == Op("get_device_info")
      last == <<device_address, "device", DeviceId, InfoProps[4]>>
      info == [device_id |-> DeviceId, device_address |-> device_address,
               name |-> InfoRead(1, hows[1]), vendor |-> InfoRead(2, hows[2]),
               model |-> InfoRead(3, hows[3]),
               description |-> InfoRead(4, hows[4])]
      unknown == [device_id |-> DeviceId, device_address |-> device_address,
                  name |-> "Unknown", vendor |-> "Unknown",
                  model |-> "Unknown", description |-> "Unknown"]
  IN  IF bacnet = None
        THEN Effect([Ret(c, NoValue, 0) EXCEPT !.info = unknown], NoWire, av)
        ELSE Effect([Ret(c, NoValue, 4) EXCEPT !.info = info, !.lib = hows],
                    last, av)

\* ------------------------------------ BACnetClient: the data operations
\* bacnet_client.py lines 98-110; subscripting None raises TypeError, and so
\* does float(None)
BACnetClient_read_analog_value(instance, how) ==
  LET c == Call("read_analog_value", instance, NoValue, None)
      point_name == <<"analogValue", instance>>
      value == BAC0_getitem(point_name, how)
  IN  IF device = None THEN Effect(Raise(c, "TypeError", 0), NoWire, av)
      ELSE IF value.raised THEN Effect(Raise(c, "LibraryError", 1), point_name, av)
      ELSE IF value.val = NoValue THEN Effect(Raise(c, "TypeError", 1), point_name, av)
      ELSE Effect(Ret(c, float(value.val), 1), point_name, av)

\* bacnet_client.py lines 121-132: the priority is logged and not passed on
BACnetClient_write_analog_value(instance, value, priority, how) ==
  LET c == Call("write_analog_value", instance, value, priority)
      point_name == <<"analogValue", instance>>
      request == <<"analogValue", instance, value>>
  IN  IF device = None THEN Effect(Raise(c, "TypeError", 0), NoWire, av)
      ELSE IF ~BAC0_setitem_ok(point_name, how)
        THEN Effect(Raise(c, "LibraryError", 1), request, av)
      ELSE Effect(Ret(c, NoValue, 1), request,
                  BAC0_setitem_av(point_name, value, how))

\* bacnet_client.py lines 151-171: find_point and the properties of the point
\* are looked up in what the device object holds
BACnetClient_read_property(object_type, instance, property_name, how) ==
  LET c == Call("read_property", instance, NoValue, None)
      value == DeviceValue(object_type, instance, property_name)
  IN  IF device = None THEN Effect(Raise(c, "AttributeError", 0), NoWire, av)
      ELSE IF how = "raise" THEN Effect(Raise(c, "LibraryError", 0), NoWire, av)
      ELSE IF how = "none" \/ instance \notin Instances
        THEN Effect(Raise(c, "ValueError", 0), NoWire, av)
      ELSE Effect(Ret(c, value, 0), NoWire, av)

\* bacnet_client.py lines 180-197; reported is device.properties.device_id
BACnetClient_get_device_info(reported) ==
  LET c == Op("get_device_info")
      info == [name |-> InfoProps[1], device_id |-> reported,
               vendor |-> InfoProps[2], model |-> InfoProps[3],
               description |-> InfoProps[4]]
  IN  IF device = None THEN Effect(Raise(c, "ConnectionError", 0), NoWire, av)
      ELSE Effect([Ret(c, NoValue, 0) EXCEPT !.info = info], NoWire, av)

\* ------------------------------------------- a call of the calling thread
Apply(e) ==
  /\ result' = e.res
  /\ av' = e.av
  /\ UNCHANGED <<cls, test, clientVars, threadVars, libVars, pc, readerVars,
                 retryVars>>

call_read_analog_value ==
  /\ test = "operations" /\ CallerIdle
  /\ \E instance \in CallInstances, how \in LibAnswers :
       Apply(IF IsEventLoop THEN read_analog_value(instance, how)
             ELSE BACnetClient_read_analog_value(instance, how))

call_write_analog_value ==
  /\ test = "operations" /\ CallerIdle
  /\ \E instance \in CallInstances, value \in Values, priority \in Priorities,
        how \in {"answer", "raise"} :
       Apply(IF IsEventLoop
               THEN write_analog_value(instance, value, priority, how)
               ELSE BACnetClient_write_analog_value(instance, value, priority, how))

\* test_write_invalid_value_type (test_bacnet_e2e.py 304-318): the call
\* write_analog_value(instance, "invalid"); neither class looks at the value
\* before it hands it to the library
test_write_invalid_value_type ==
  /\ test = "operations" /\ CallerIdle
  /\ \E how \in {"answer", "raise"} :
       Apply(IF IsEventLoop
               THEN write_analog_value(analog_value_instance, InvalidValue,
                                       DefaultPriority, how)
               ELSE BACnetClient_write_analog_value(analog_value_instance,
                                                    InvalidValue,
                                                    DefaultPriority, how))

call_read_property ==
  /\ test = "operations" /\ CallerIdle
  /\ \E instance \in CallInstances, property_name \in Properties,
        how \in LibAnswers :
       Apply(IF IsEventLoop
               THEN read_property("analogValue", instance, property_name, how)
               ELSE BACnetClient_read_property("analogValue", instance,
                                               property_name, how))

call_whois ==
  /\ test = "operations" /\ CallerIdle /\ IsEventLoop
  /\ \E how \in {"answer", "raise"} : Apply(whois(how))

call_get_device_info ==
  /\ test = "operations" /\ CallerIdle
  /\ \/ /\ IsEventLoop
        /\ \E hows \in [1..4 -> {"answer", "raise"}] : Apply(get_device_info(hows))
     \/ /\ IsSimple
        /\ \E reported \in {DeviceId, DeviceId + 1} :
             Apply(BACnetClient_get_device_info(reported))

\* ---------------------- a second thread inside read_property (lines 229-244)
\* the thread passes the check of line 230 and enters bacnet.read
reader_call ==
  /\ test = "concurrent_read" /\ IsEventLoop
  /\ r_pc \in {"idle", "done", "done_after_disconnect"}
  /\ LET c == Call("read_property", analog_value_instance, NoValue, None)
     IN  IF bacnet = None
           THEN /\ r_pc' = "done"
                /\ r_result' = Raise(c, "ConnectionError", 0)
           ELSE /\ r_pc' = "waiting"
                /\ r_result' = [c EXCEPT !.sent = 1]
  /\ UNCHANGED <<cls, test, clientVars, threadVars, libVars, pc, result, av,
                 retryVars>>

\* bacnet.read returns to the suspended thread, or raises
reader_return(how) ==
  /\ r_pc \in {"waiting", "interrupted"}
  /\ r_pc' = IF r_pc = "interrupted" THEN "done_after_disconnect" ELSE "done"
  /\ r_result' = read_property_return(
                   r_result,
                   <<device_address, "analogValue", analog_value_instance,
                     "presentValue">>, how)
  /\ UNCHANGED <<cls, test, clientVars, threadVars, libVars, pc, result, av,
                 retryVars>>

\* -------- test_read_analog_value_with_retry (test_bacnet_e2e.py 205-230)
\* lines 211-215: the loop is entered when range(1, max_retries + 1) is not
\* empty; otherwise the test ends without an attempt
retry_start ==
  /\ test = "retry" /\ CallerIdle
  /\ tx' = 0
  /\ slept' = 0
  /\ IF max_retries >= 1
       THEN /\ attempt' = 1
            /\ t_pc' = "attempt"
       ELSE /\ attempt' = 0
            /\ t_pc' = "passed"
  /\ UNCHANGED <<cls, test, clientVars, threadVars, libVars, pc, result, av,
                 readerVars, analog_value_instance, test_value,
                 max_retries, original_value>>

\* retry_attempt giving up one attempt early
retry_attempt_early(how) ==
  /\ pc = "idle"
  /\ t_pc = "attempt"
  /\ LET e == IF IsEventLoop THEN read_analog_value(analog_value_instance, how)
              ELSE BACnetClient_read_analog_value(analog_value_instance, how)
     IN  /\ result' = e.res
         /\ tx' = tx + e.res.sent
         /\ t_pc' = IF e.res.out = "return" THEN "passed"
                    ELSE IF attempt >= max_retries - 1 THEN "failed"
                    ELSE "sleep"
  /\ UNCHANGED <<cls, test, clientVars, threadVars, libVars, pc, av, readerVars,
                 analog_value_instance, test_value, max_retries, attempt, slept,
                 original_value>>

\* retry_attempt without the return of line 222: after a read that
\* succeeded the loop goes on while attempts are left
retry_attempt_no_return(how) ==
  /\ pc = "idle"
  /\ t_pc = "attempt"
  /\ LET e == IF IsEventLoop THEN read_analog_value(analog_value_instance, how)
              ELSE BACnetClient_read_analog_value(analog_value_instance, how)
     IN  /\ result' = e.res
         /\ tx' = tx + e.res.sent
         /\ t_pc' = IF attempt < max_retries THEN "sleep"
                    ELSE IF e.res.out = "return" THEN "passed"
                    ELSE "failed"
  /\ UNCHANGED <<cls, test, clientVars, threadVars, libVars, pc, av, readerVars,
                 analog_value_instance, test_value, max_retries, attempt, slept,
                 original_value>>

\* lines 216-228: one read attempt; success returns, the last failure fails
\* the test, any other failure goes on to the sleep of line 230
retry_attempt(how) ==
  /\ pc = "idle"
  /\ t_pc = "attempt"
  /\ LET e == IF IsEventLoop THEN read_analog_value(analog_value_instance, how)
              ELSE BACnetClient_read_analog_value(analog_value_instance, how)
     IN  /\ result' = e.res
         /\ tx' = tx + e.res.sent
         /\ t_pc' = IF e.res.out = "return" THEN "passed"
                    ELSE IF attempt = max_retries THEN "failed"
                    ELSE "sleep"
  /\ UNCHANGED <<cls, test, clientVars, threadVars, libVars, pc, av, readerVars,
                 analog_value_instance, test_value, max_retries, attempt, slept,
                 original_value>>

\* line 230: time.sleep(retry_delay), then the next iteration
retry_sleep ==
  /\ t_pc = "sleep"
  /\ slept' = slept + 1
  /\ attempt' = attempt + 1
  /\ t_pc' = "attempt"
  /\ UNCHANGED <<cls, test, clientVars, threadVars, libVars, pc, result, av,
                 readerVars, analog_value_instance, test_value,
                 max_retries, tx, original_value>>

\* ---------- test_multiple_write_read_cycles (test_bacnet_e2e.py 136-174)
\* line 159: bacnet_client.write_analog_value(instance, test_value)
cycle_write(value, how) ==
  /\ test = "write_read" /\ pc = "idle"
  /\ t_pc \in {"idle", "verified"}
  /\ LET e == IF IsEventLoop
                THEN write_analog_value(analog_value_instance, value,
                                        DefaultPriority, how)
                ELSE BACnetClient_write_analog_value(analog_value_instance,
                                                     value, DefaultPriority, how)
     IN  /\ result' = e.res
         /\ av' = e.av
         /\ test_value' = value
         /\ t_pc' = IF e.res.out = "return" THEN "written" ELSE "error"
  /\ UNCHANGED <<cls, test, clientVars, threadVars, libVars, pc, readerVars,
                 analog_value_instance, max_retries, attempt, tx, slept,
                 original_value>>

Abs(x) == IF x < 0 THEN 0 - x ELSE x

\* lines 165-170: read back and assert abs(read_value - test_value) < tolerance
cycle_read(how) ==
  /\ pc = "idle"
  /\ t_pc = "written"
  /\ LET e == IF IsEventLoop THEN read_analog_value(analog_value_instance, how)
              ELSE BACnetClient_read_analog_value(analog_value_instance, how)
     IN  /\ result' = e.res
         /\ t_pc' = IF e.res.out # "return" THEN "error"
                    ELSE IF Abs(e.res.val - test_value) < Tolerance
                      THEN "verified"
                    ELSE "assert_failed"
  /\ UNCHANGED <<cls, test, clientVars, threadVars, libVars, pc, av, readerVars,
                 analog_value_instance, test_value, max_retries, attempt, tx,
                 slept, original_value>>

\* ------------- the original_analog_value fixture (conftest.py 82-103)
\* lines 92-94: the fixture reads the value before the test; when the read
\* raises, the test is not run and nothing is torn down
original_analog_value_setup(how) ==
  /\ test = "restore" /\ CallerIdle
  /\ LET e == IF IsEventLoop THEN read_analog_value(analog_value_instance, how)
              ELSE BACnetClient_read_analog_value(analog_value_instance, how)
     IN  /\ result' = e.res
         /\ original_value' = IF e.res.out = "return" THEN e.res.val
                               ELSE original_value
         /\ t_pc' = IF e.res.out = "return" THEN "body" ELSE "setup_error"
  /\ UNCHANGED <<cls, test, clientVars, threadVars, libVars, pc, av, readerVars,
                 analog_value_instance, test_value, max_retries, attempt, tx,
                 slept>>

\* a test that uses the fixture writes a value (test_bacnet_e2e.py line 80,
\* line 110, line 159 of the cycles); a write that raises fails the test
fixture_test_write(value, how) ==
  /\ pc = "idle"
  /\ t_pc = "body"
  /\ LET e == IF IsEventLoop
                THEN write_analog_value(analog_value_instance, value,
                                        DefaultPriority, how)
                ELSE BACnetClient_write_analog_value(analog_value_instance,
                                                     value, DefaultPriority, how)
     IN  /\ result' = e.res
         /\ av' = e.av
         /\ test_value' = value
         /\ t_pc' = IF e.res.out = "return" THEN "body" ELSE "body_failed"
  /\ UNCHANGED <<cls, test, clientVars, threadVars, libVars, pc, readerVars,
                 analog_value_instance, max_retries, attempt, tx, slept,
                 original_value>>

\* the teardown that restores only after a test that passed
original_analog_value_teardown_passed_only(how) ==
  /\ pc = "idle"
  /\ t_pc \in {"body", "body_failed"}
  /\ LET e == IF IsEventLoop
                THEN write_analog_value(analog_value_instance, original_value,
                                        DefaultPriority, how)
                ELSE BACnetClient_write_analog_value(analog_value_instance,
                                                     original_value,
                                                     DefaultPriority, how)
     IN  /\ result' = e.res
         /\ av' = IF t_pc = "body" THEN e.av ELSE av
         /\ t_pc' = IF e.res.out = "return" THEN "restored"
                    ELSE "restore_failed"
  /\ UNCHANGED <<cls, test, clientVars, threadVars, libVars, pc, readerVars,
                 analog_value_instance, test_value, max_retries, attempt, tx,
                 slept, original_value>>

\* lines 98-103: after the test, passed or failed, the fixture writes the
\* value it read; a write that raises is logged and not raised
original_analog_value_teardown(how) ==
  /\ pc = "idle"
  /\ t_pc \in {"body", "body_failed"}
  /\ LET e == IF IsEventLoop
                THEN write_analog_value(analog_value_instance, original_value,
                                        DefaultPriority, how)
                ELSE BACnetClient_write_analog_value(analog_value_instance,
                                                     original_value,
                                                     DefaultPriority, how)
     IN  /\ result' = e.res
         /\ av' = e.av
         /\ t_pc' = IF e.res.out = "return" THEN "restored"
                    ELSE "restore_failed"
  /\ UNCHANGED <<cls, test, clientVars, threadVars, libVars, pc, readerVars,
                 analog_value_instance, test_value, max_retries, attempt, tx,
                 slept, original_value>>

\* ------------------------------------------------------ specification
Next ==
  \/ \E t \in 1..MaxSessions : run_event_loop_create(t)
  \/ \E t \in 1..MaxSessions : run_event_loop_forever(t)
  \/ \E t \in 1..MaxSessions : run_event_loop_close(t)
  \/ \E ok \in BOOLEAN : async_connect(ok)
  \/ start_event_loop
  \/ \E timed_out \in BOOLEAN : start_event_loop_wait(timed_out)
  \/ connect_submit
  \/ \E timed_out \in BOOLEAN : connect_result(timed_out)
  \/ connect_except
  \/ \E timed_out \in BOOLEAN : connect_raise(timed_out)
  \/ \E lib_ok \in BOOLEAN : disconnect(lib_ok)
  \/ \E timed_out \in BOOLEAN : disconnect_return(timed_out)
  \/ \E lite_ok \in BOOLEAN, dev \in {"device", "falsy", "raise"} :
       BACnetClient_connect(lite_ok, dev)
  \/ \E lib_ok \in BOOLEAN : BACnetClient_disconnect(lib_ok)
  \/ call_read_analog_value
  \/ call_write_analog_value
  \/ test_write_invalid_value_type
  \/ call_read_property
  \/ call_whois
  \/ call_get_device_info
  \/ reader_call
  \/ \E how \in LibAnswers : reader_return(how)
  \/ retry_start
  \/ \E how \in LibAnswers : retry_attempt(how)
  \/ retry_sleep
  \/ \E value \in Values, how \in {"answer", "raise"} : cycle_write(value, how)
  \/ \E how \in LibAnswers : cycle_read(how)
  \/ \E how \in LibAnswers : original_analog_value_setup(how)
  \/ \E value \in Values, how \in {"answer", "raise"} :
       fixture_test_write(value, how)
  \/ \E how \in {"answer", "raise"} : original_analog_value_teardown(how)

Spec == Init /\ [][Next]_vars

\* ------------------------------------------------------------- claims
\* the client holds what its operations need: self.bacnet for
\* EventLoopBACnetClient, self.device for BACnetClient
Connected == IF IsEventLoop THEN bacnet # None ELSE device # None
ConnOps == {"read_analog_value", "write_analog_value", "read_property",
            "whois", "get_device_info"}

\* C1: connect() on a client that is already connected is a no-op: while the
\* call runs and when it has ended the connection handle is the one the
\* client had, no further library connection has been opened and no further
\* event-loop thread has been started.
C1_connect_idempotent ==
  [][(bacnet # None /\ result'.op = "connect")
       => /\ bacnet' = bacnet
          /\ nconn' = nconn
          /\ loop_thread' = loop_thread]_vars

\* C2: an operation that needs a connection, called on a client that holds
\* no connection, delivers an error to its caller and hands no request to the
\* library.  (The kind of the error is left open here: the formula is
\* violated only by a call that delivers no error at all.)
C2_not_connected_fails ==
  (pc = "idle" /\ bacnet = None /\ device = None /\ result.op \in ConnOps)
    => (result.out = "raise" /\ result.sent = 0)

\* C3: disconnect() called on a client whose connect() was never called, or
\* whose connect() has just failed, or that is already disconnected, returns
\* without raising and leaves the client without a connection handle.
C3_disconnect_safe ==
  [][(/\ \/ result.op = "none"
         \/ result.op = "connect" /\ result.out = "raise"
         \/ result.op = "disconnect" /\ result.out = "return" /\ bacnet = None
      /\ pc = "idle"
      /\ result'.op = "disconnect"
      /\ result'.out \in {"return", "raise"})
       => (result'.out = "return" /\ bacnet' = None)]_vars

\* C4: once disconnect() of EventLoopBACnetClient has returned, whatever the
\* library's own disconnect did, the client holds no connection handle.
\* (The claim also says that the event-loop thread has ended; the handle
\* alone decides it.)
C4_disconnect_releases ==
  (IsEventLoop /\ result.op = "disconnect" /\ result.out = "return")
    => bacnet = None

\* C5: a read_property call that was suspended in the library when
\* disconnect() closed the connection ends by raising a Cancelled error.
C5_read_cancelled ==
  r_pc = "done_after_disconnect"
    => (r_result.out = "raise" /\ r_result.err = "Cancelled")

\* the retry test has failed on a connected client: every attempt was handed
\* to the library and none was answered
RetryFailedOnSilence ==
  t_pc = "failed" /\ result.op = "read_analog_value" /\ Connected

C7_write_read_round_trip == t_pc # "assert_failed"
C7_witness ==
  /\ t_pc = "verified"
  /\ result.op = "read_analog_value" /\ result.out = "return"
  /\ result.inst = AnalogValueInstance + 1
  /\ test_value = 7550
  /\ Abs(result.val - test_value) < Tolerance

\* the keys of the dictionary EventLoopBACnetClient.get_device_info returns
\* and the property that each of the four read keys reports
InfoKeys == {"device_id", "device_address", "name", "vendor", "model",
             "description"}
InfoKeyOf == <<"name", "vendor", "model", "description">>

\* C11: EventLoopBACnetClient.get_device_info never raises; its result has
\* the six keys device_id, device_address, name, vendor, model, description;
\* each of the four read keys is "Unknown" when its own read raised and is
\* what the library answered when its own read returned, whatever the other
\* three reads did.
C11_device_info_unknowns ==
  (IsEventLoop /\ result.op = "get_device_info")
    => /\ result.out = "return"
       /\ DOMAIN result.info = InfoKeys
       /\ Connected =>
            \A k \in 1..4 :
              /\ result.lib[k] = "raise" => result.info[InfoKeyOf[k]] = "Unknown"
              /\ result.lib[k] = "answer" =>
                   result.info[InfoKeyOf[k]] = InfoProps[k]
       /\ ~Connected =>
            \A k \in 1..4 : result.info[InfoKeyOf[k]] = "Unknown"
C11_witness ==
  /\ IsEventLoop /\ Connected
  /\ result.op = "get_device_info" /\ result.out = "return"
  /\ result.lib = <<"answer", "raise", "answer", "raise">>
  /\ result.info.name = "objectName" /\ result.info.vendor = "Unknown"
  /\ result.info.model = "modelName" /\ result.info.description = "Unknown"

C13_read_float_or_raise ==
  result.op = "read_analog_value"
    => /\ result.out \in {"return", "raise"}
       /\ result.out = "return" => (result.val # NoValue /\ result.val \in Nat)
       /\ result.inst = InvalidInstance => result.out = "raise"
C13_witness ==
  /\ IsEventLoop /\ Connected
  /\ result.op = "read_analog_value" /\ result.inst = InvalidInstance
  /\ result.out = "raise" /\ result.err = "ValueError" /\ result.sent = 1

\* C14: write_analog_value called on a connected client with a value that is
\* not a number never completes as a successful write: it raises.  (The
\* claim names the kinds ValueError and TypeError; the formula is violated
\* only by a call that returns.)
C14_invalid_value_rejected ==
  (Connected /\ result.op = "write_analog_value" /\ ~IsNumeric(result.arg))
    => result.out = "raise"

\* C15: the write request that write_analog_value(instance, value, priority)
\* hands to the library carries the priority the caller gave (8 when the
\* caller gave none), for both classes.
C15_priority_carried ==
  (result.op = "write_analog_value" /\ result.sent = 1)
    => (Len(result.wire) = 7 /\ result.wire[7] = result.prio)

\* the fixture's teardown has run
TeardownRan == t_pc \in {"restored", "restore_failed"}

\* C16 as stated: once the teardown of original_analog_value has run, the
\* present value of the AnalogValue is the value read at setup.
C16_restored_as_stated ==
  TeardownRan => av[analog_value_instance] = original_value

\* C16 as amended: after a test that passed and after a test that failed,
\* the teardown writes the value read at setup to the configured instance;
\* once that write has returned, the present value is the value read at
\* setup, whatever the test wrote; when that write raises, the teardown ends
\* without raising and without a further attempt.
C16_restored_when_written ==
  /\ TeardownRan =>
       /\ result.op = "write_analog_value"
       /\ result.inst = analog_value_instance
       /\ result.arg = original_value
       /\ result.sent = 1
  /\ t_pc = "restored" =>
       (result.out = "return" /\ av[analog_value_instance] = original_value)
  /\ t_pc = "restore_failed" => result.out = "raise"
C16_witness ==
  /\ t_pc = "restored"
  /\ original_value = 0 /\ test_value = 7550
  /\ av[analog_value_instance] = 0

\* C17: for max_retries >= 1 the retry loop makes at most max_retries read
\* attempts; it stops at the first attempt that succeeds; it has slept
\* retry_delay once after every failed attempt but the last; and it ends
\* either passed, after a successful attempt k <= max_retries, or failed,
\* after exactly max_retries failed attempts.
C17_retry_loop ==
  (test = "retry" /\ max_retries >= 1 /\ t_pc # "idle")
    => /\ t_pc \in {"attempt", "sleep", "passed", "failed"}
       /\ attempt \in 1..max_retries
       /\ slept = attempt - 1
       /\ t_pc = "sleep" => (result.out = "raise" /\ attempt < max_retries)
       /\ t_pc = "passed" => result.out = "return"
       /\ t_pc = "failed" => (result.out = "raise" /\ attempt = max_retries)
C17_witness ==
  /\ test = "retry" /\ t_pc = "passed"
  /\ max_retries = MaxRetriesBound /\ attempt = 2 /\ slept = 1
  /\ result.op = "read_analog_value" /\ result.out = "return"

\* a connection has been opened by connect() and released by disconnect(),
\* and no connection coroutine is left over from a connect() that timed out
SessionEnded == nconn >= 1 /\ bacnet = None /\ fut = NoFuture

\* C18: a connect() that follows the disconnect() of an earlier session
\* never submits the connection coroutine to the closed event loop of that
\* session: at run_coroutine_threadsafe, self.loop is not a loop that has
\* been closed, also when the thread this connect() started has not created
\* its loop yet.
C18_submit_to_open_loop ==
  [][(/\ SessionEnded
      /\ loop_thread # None /\ thr[loop_thread] = "new"
      /\ pc = "c_submit" /\ pc' # "c_submit")
       => ~is_closed(loop)]_vars

\* the event-loop threads of the client that are alive
AliveThreads == {t \in 1..MaxSessions : is_alive(t)}

\* C19: at most one event-loop thread of the client is alive at any time,
\* and a thread is started only when self.loop_thread is None or refers to a
\* thread that has ended.
C19_one_loop_thread ==
  /\ [](Cardinality(AliveThreads) <= 1)
  /\ [][\A t \in 1..MaxSessions :
          (thr[t] = "unstarted" /\ thr'[t] = "new")
            => (loop_thread = None \/ ~is_alive(loop_thread))]_vars
C19_witness ==
  /\ thr[1] = "done" /\ thr[2] = "running"
  /\ loop_thread = 2 /\ AliveThreads = {2}

\* C20: once a connect() of EventLoopBACnetClient has raised, the event-loop
\* thread of that call has ended or its loop has been asked to stop.  (The
\* claim also says that the exception reaches the caller and that bacnet is
\* as before the call; the formula is violated only by a thread that is left
\* running with no stop scheduled.)
C20_failed_connect_stops_loop ==
  (IsEventLoop /\ pc = "idle" /\ result.op = "connect" /\ result.out = "raise")
    => \/ loop_thread = None
       \/ ~is_alive(loop_thread)
       \/ stopreq[loop_thread]

\* C21: in every state of a BACnetClient, whatever connect() and
\* disconnect() calls led to it and whether they returned or raised, the
\* device handle is set only if the network handle is set; and when
\* disconnect() has returned, both handles are None.
C21_device_implies_bacnet ==
  IsSimple
    => /\ device # None => bacnet # None
       /\ (result.op = "disconnect" /\ result.out = "return")
            => (bacnet = None /\ device = None)
C21_witness ==
  /\ IsSimple
  /\ result.op = "connect" /\ result.out = "raise"
  /\ result.err = "ConnectionError"
  /\ bacnet # None /\ device = None /\ nconn = MaxSessions

====
